---- MODULE Spec2Model ----
(***************************************************************************)
(* Model of the Hardcover reading-dashboard generator.                     *)
(*                                                                         *)
(*   hardcover_client.py  the data fetcher: a TTL file cache in front of   *)
(*                        one GraphQL request                             *)
(*   build_static.py      the view-model builder and main()                *)
(*                                                                         *)
(* Spec models runs of main(): token check, cache read, request, the       *)
(* steps of the cache write, and the output artifacts.  The builder's pure *)
(* functions are operators, applied to bounded inputs by SpecCurrently,    *)
(* SpecRating, SpecFinished and SpecTimeline.                              *)
(***************************************************************************)
EXTENDS Integers, Sequences, FiniteSets, TLC

VARIABLES
    cfg,          \* main's environment: token, cache_path, ttl_seconds, nocache
    now,          \* time.time(), in whole seconds
    fs,           \* the files at cache_path and cache_path + ".tmp"
    fs0,          \* the files as the run found them
    pc,           \* position of the run inside main / fetch_hardcover_data
    response,     \* body of the HTTP response of this run's request
    payload,      \* fetch_hardcover_data's local `payload`
    result,       \* what fetch_hardcover_data returned: [src, val]
    prev,         \* what the previous run's fetch returned
    error,        \* the exception that ended the run, "none" if none
    requests,     \* requests.post calls of this run
    cache_reads,  \* _read_cache calls of this run that opened the file
    cache_writes, \* _write_cache calls of this run that opened the tmp file
    artifacts,    \* output files written by main
    runs,         \* number of runs started
    input,        \* argument of the builder function under check
    output        \* its return value

vars == <<cfg, now, fs, fs0, pc, response, payload, result, prev, error, requests,
          cache_reads, cache_writes, artifacts, runs, input, output>>

----------------------------------------------------------------------------
(* Bounds                                                                  *)

MaxRuns == 2
MaxTime == 2
MaxTtl == 1

----------------------------------------------------------------------------
(* JSON values, as json.load returns them and json.dump takes them.  One   *)
(* record shape for every value: t is the type, n / d a number, s a        *)
(* string, k the keys of an object in insertion order, a the items of a    *)
(* list or the values of an object.                                        *)

JNull == [t |-> "null", n |-> 0, d |-> 1, s |-> "", k |-> <<>>, a |-> <<>>]
JFrac(n, d) == [t |-> "num", n |-> n, d |-> d, s |-> "", k |-> <<>>, a |-> <<>>]
JNum(n) == JFrac(n, 1)
JStr(s) == [t |-> "str", n |-> 0, d |-> 1, s |-> s, k |-> <<>>, a |-> <<>>]
JList(items) == [t |-> "list", n |-> 0, d |-> 1, s |-> "", k |-> <<>>, a |-> items]
JObj(keys, vals) == [t |-> "obj", n |-> 0, d |-> 1, s |-> "", k |-> keys, a |-> vals]
EmptyDict == JObj(<<>>, <<>>)

\* dict.get(key): the value, or None
Get(obj, key) ==
    IF obj.t = "obj" /\ \E i \in 1..Len(obj.k) : obj.k[i] = key
    THEN obj.a[CHOOSE i \in 1..Len(obj.k) : obj.k[i] = key]
    ELSE JNull

\* "key" in dict
HasKey(obj, key) == obj.t = "obj" /\ \E i \in 1..Len(obj.k) : obj.k[i] = key

\* Python truthiness of a JSON value
Truthy(v) ==
    CASE v.t = "null" -> FALSE
      [] v.t = "num" -> v.n # 0
      [] v.t = "str" -> v.s # ""
      [] v.t = "list" -> Len(v.a) > 0
      [] OTHER -> Len(v.k) > 0

\* The text of a JSON document, as the sequence of its lexical tokens.
Tok(c) == [c |-> c, n |-> 0, d |-> 1, s |-> ""]
NumTok(n, d) == [c |-> "num", n |-> n, d |-> d, s |-> ""]
StrTok(s) == [c |-> "str", n |-> 0, d |-> 1, s |-> s]

RECURSIVE JsonDump(_), DumpItems(_, _), DumpMembers(_, _, _)

\* json.dump's members of an object from position i on
DumpMembers(keys, vals, i) ==
    IF i > Len(keys) THEN <<>>
    ELSE (IF i > 1 THEN <<Tok(",")>> ELSE <<>>)
         \o <<StrTok(keys[i]), Tok(":")>> \o JsonDump(vals[i])
         \o DumpMembers(keys, vals, i + 1)

\* json.dump's items of a list from position i on
DumpItems(items, i) ==
    IF i > Len(items) THEN <<>>
    ELSE (IF i > 1 THEN <<Tok(",")>> ELSE <<>>)
         \o JsonDump(items[i]) \o DumpItems(items, i + 1)

\* f.write(str(payload)) in place of json.dump: None is written as None
ReprDump(v) ==
    CASE v.t = "null" -> <<Tok("None")>>
      [] v.t = "num" -> <<NumTok(v.n, v.d)>>
      [] v.t = "str" -> <<StrTok(v.s)>>
      [] v.t = "list" -> <<Tok("[")>> \o DumpItems(v.a, 1) \o <<Tok("]")>>
      [] OTHER -> <<Tok("{")>> \o DumpMembers(v.k, v.a, 1) \o <<Tok("}")>>

\* json.dump(payload, f, ensure_ascii=False): the chunks written to f
JsonDump(v) ==
    CASE v.t = "null" -> <<Tok("null")>>
      [] v.t = "num" -> <<NumTok(v.n, v.d)>>
      [] v.t = "str" -> <<StrTok(v.s)>>
      [] v.t = "list" -> <<Tok("[")>> \o DumpItems(v.a, 1) \o <<Tok("]")>>
      [] OTHER -> <<Tok("{")>> \o DumpMembers(v.k, v.a, 1) \o <<Tok("}")>>

\* The result of a parse: ok, the value, and the position after it.
ParseFail == [ok |-> FALSE, val |-> JNull, next |-> 0]
Parsed(v, i) == [ok |-> TRUE, val |-> v, next |-> i]

\* d[key] = val on a dict under construction: a repeated key keeps its place
PutKey(obj, key, val) ==
    IF \E i \in 1..Len(obj.k) : obj.k[i] = key
    THEN LET i == CHOOSE j \in 1..Len(obj.k) : obj.k[j] = key
         IN JObj(obj.k, [obj.a EXCEPT ![i] = val])
    ELSE JObj(Append(obj.k, key), Append(obj.a, val))

RECURSIVE ParseValue(_, _), ParseItems(_, _, _), ParseMembers(_, _, _)

\* the members of an object: "key" : value, then "," or "}"
ParseMembers(toks, i, acc) ==
    IF i + 1 > Len(toks) \/ toks[i].c # "str" \/ toks[i + 1].c # ":"
    THEN ParseFail
    ELSE LET r == ParseValue(toks, i + 2) IN
         IF ~r.ok \/ r.next > Len(toks) THEN ParseFail
         ELSE IF toks[r.next].c = ","
              THEN ParseMembers(toks, r.next + 1, PutKey(acc, toks[i].s, r.val))
         ELSE IF toks[r.next].c = "}"
              THEN Parsed(PutKey(acc, toks[i].s, r.val), r.next + 1)
         ELSE ParseFail

\* the items of a list: value, then "," or "]"
ParseItems(toks, i, acc) ==
    LET r == ParseValue(toks, i) IN
    IF ~r.ok \/ r.next > Len(toks) THEN ParseFail
    ELSE IF toks[r.next].c = ","
         THEN ParseItems(toks, r.next + 1, Append(acc, r.val))
    ELSE IF toks[r.next].c = "]"
         THEN Parsed(JList(Append(acc, r.val)), r.next + 1)
    ELSE ParseFail

\* one JSON value starting at token i
ParseValue(toks, i) ==
    IF i > Len(toks) THEN ParseFail
    ELSE CASE toks[i].c = "null" -> Parsed(JNull, i + 1)
           [] toks[i].c = "num" -> Parsed(JFrac(toks[i].n, toks[i].d), i + 1)
           [] toks[i].c = "str" -> Parsed(JStr(toks[i].s), i + 1)
           [] toks[i].c = "[" ->
                IF i + 1 <= Len(toks) /\ toks[i + 1].c = "]"
                THEN Parsed(JList(<<>>), i + 2)
                ELSE ParseItems(toks, i + 1, <<>>)
           [] toks[i].c = "{" ->
                IF i + 1 <= Len(toks) /\ toks[i + 1].c = "}"
                THEN Parsed(EmptyDict, i + 2)
                ELSE ParseMembers(toks, i + 1, EmptyDict)
           [] OTHER -> ParseFail

\* json.load(f): the value, or ok = FALSE where it raises JSONDecodeError
JsonLoad(toks) ==
    LET r == ParseValue(toks, 1) IN
    IF r.ok /\ r.next = Len(toks) + 1 THEN r ELSE ParseFail

----------------------------------------------------------------------------
(* Files                                                                   *)

NoFile == [exists |-> FALSE, data |-> <<>>, mtime |-> 0]
File(data, mtime) == [exists |-> TRUE, data |-> data, mtime |-> mtime]

\* the values of CACHE_PATH: unset to "", a bare file name, the default
CachePaths == {"", "hardcover_cache.json", ".cache/hardcover_cache.json"}

\* os.path.dirname(path)
Dirname(path) == IF path = ".cache/hardcover_cache.json" THEN ".cache" ELSE ""

\* tmp = path + ".tmp"
TmpPath(path) == path \o ".tmp"

\* a writer that opens the cache file itself
NonAtomicTarget(path) == path

\* the file the payload is dumped to: open(tmp, "w")
DumpTarget(path) == TmpPath(path)

\* the paths the model keeps a file for
Paths == CachePaths \cup {TmpPath(p) : p \in CachePaths}

----------------------------------------------------------------------------
(* hardcover_client.py                                                     *)

None == [src |-> "none", val |-> JNull]

\* a cache that expires when its age reaches the TTL
StaleAtOrAfterTtl(age, ttl_seconds) == age >= ttl_seconds

\* age > ttl_seconds
IsStale(age, ttl_seconds) == age > ttl_seconds

\* _read_cache(path, ttl_seconds): the cached value, JNull for None
_read_cache(files, path, ttl_seconds, time) ==
    IF path = "" THEN JNull
    ELSE IF ~files[path].exists THEN JNull
    ELSE IF IsStale(time - files[path].mtime, ttl_seconds) THEN JNull
    ELSE LET r == JsonLoad(files[path].data) IN
         IF r.ok THEN r.val ELSE JNull

\* whether _read_cache got as far as open(path)
ReadOpensFile(files, path, ttl_seconds, time) ==
    /\ path # ""
    /\ files[path].exists
    /\ ~IsStale(time - files[path].mtime, ttl_seconds)

\* the bodies the server answers with
MeRecord ==
    JObj(<<"name", "goals">>,
         <<JNull, JList(<<JObj(<<"goal">>, <<JNum(24)>>)>>)>>)
ErrorList == JList(<<JObj(<<"message">>, <<JStr("denied")>>)>>)
Bodies ==
    << JObj(<<"data">>, <<JObj(<<"me">>, <<MeRecord>>)>>),
       JObj(<<"data">>, <<JObj(<<"me">>, <<JList(<<MeRecord>>)>>)>>),
       JObj(<<"data">>, <<JNull>>),
       JObj(<<"errors">>, <<ErrorList>>),
       JObj(<<"data", "errors">>, <<JObj(<<"me">>, <<MeRecord>>), ErrorList>>) >>

\* what requests.post and r.raise_for_status() end with
Outcomes == {"ok", "http_error", "timeout"}

\* graphql(): data.get("data") or {}
GraphqlData(body) ==
    IF Truthy(Get(body, "data")) THEN Get(body, "data") ELSE EmptyDict

\* payload = {"me": data.get("me")}
MakePayload(data) == JObj(<<"me">>, <<Get(data, "me")>>)

----------------------------------------------------------------------------
(* build_static.py: values                                                 *)

\* Python's round(n / d) for d > 0: to the nearest integer, halves to even
RoundHalfEven(n, d) ==
    LET q == n \div d
        r == n % d
    IN IF 2 * r < d THEN q
       ELSE IF 2 * r > d THEN q + 1
       ELSE IF q % 2 = 0 THEN q ELSE q + 1

\* _safe_int(x, default): int(round(float(x))), default for None and for
\* what float() raises on
_safe_int(x, default) ==
    IF x.t = "num" THEN RoundHalfEven(x.n, x.d) ELSE default

\* A date or datetime, of which the builder only ever uses the date; ok is
\* FALSE for None.
NoDate == [ok |-> FALSE, y |-> 0, m |-> 0, d |-> 0]
Date(y, m, d) == [ok |-> TRUE, y |-> y, m |-> m, d |-> d]

IsLeap(y) == (y % 4 = 0 /\ y % 100 # 0) \/ y % 400 = 0

DaysInMonth(y, m) ==
    IF m = 2 THEN (IF IsLeap(y) THEN 29 ELSE 28)
    ELSE IF m \in {4, 6, 9, 11} THEN 30 ELSE 31

ValidDate(y, m, d) ==
    /\ y \in 1..9999
    /\ m \in 1..12
    /\ d >= 1
    /\ d <= DaysInMonth(y, m)

RECURSIVE DaysBeforeMonth(_, _)
DaysBeforeMonth(y, m) ==
    IF m <= 1 THEN 0 ELSE DaysInMonth(y, m - 1) + DaysBeforeMonth(y, m - 1)

\* date.toordinal(): the days of (end.date() - start.date()).days
Ordinal(dt) ==
    LET y == dt.y - 1
    IN y * 365 + (y \div 4) - (y \div 100) + (y \div 400)
       + DaysBeforeMonth(dt.y, dt.m) + dt.d

\* A string holding a date: s names the form of the text, a the digits of
\* its first ten characters.  The forms are those _parse_dt tells apart:
\*   "YYYY-MM-DD"            fromisoformat reads it
\*   "YYYY-MM-DDThh:mm:ssZ"  fromisoformat reads it once Z is replaced
\*   "YYYY-MM-DD?"           only strptime on the first ten characters does
JDate(form, y, m, d) ==
    [t |-> "str", n |-> 0, d |-> 1, s |-> form, k |-> <<>>,
     a |-> <<JNum(y), JNum(m), JNum(d)>>]

IsoForms == {"YYYY-MM-DD", "YYYY-MM-DDThh:mm:ssZ"}
PrefixForms == {"YYYY-MM-DD?"}

SpelledDate(v) == Date(v.a[1].n, v.a[2].n, v.a[3].n)

SpellsValidDate(v) ==
    /\ v.t = "str"
    /\ Len(v.a) = 3
    /\ ValidDate(v.a[1].n, v.a[2].n, v.a[3].n)

\* _parse_dt(s): None for a falsy s, fromisoformat, then strptime on s2[:10]
_parse_dt(v) ==
    IF ~Truthy(v) THEN NoDate
    ELSE IF SpellsValidDate(v) /\ v.s \in IsoForms THEN SpelledDate(v)
    ELSE IF SpellsValidDate(v) /\ v.s \in PrefixForms THEN SpelledDate(v)
    ELSE NoDate

\* _days_between(start, end)
_days_between(start, end) ==
    IF ~start.ok \/ ~end.ok THEN JNull
    ELSE LET days == Ordinal(end) - Ordinal(start)
         IN JNum((IF days > 0 THEN days ELSE 0) + 1)

\* _rating_to_stars(rating)
_rating_to_stars(rating) ==
    IF rating.t = "null" THEN JNull
    ELSE IF rating.t # "num" THEN JNull
    ELSE IF rating.n <= 0 THEN JNull
    ELSE IF rating.n <= 5 * rating.d
         THEN JNum(RoundHalfEven(rating.n, rating.d))
    ELSE JNum(RoundHalfEven(rating.n, 2 * rating.d))

\* truthiness of an item's started_at / finished_at: a parsed date in a
\* finished item, the raw value in a currently-reading item
Present(x) == IF "ok" \in DOMAIN x THEN x.ok ELSE Truthy(x)

\* _missing_badges(item)
_missing_badges(item) ==
    (IF ~Truthy(item.pages) THEN <<"pages">> ELSE <<>>)
    \o (IF item.rating_stars.t = "null" THEN <<"rating">> ELSE <<>>)
    \o (IF ~Present(item.started_at) THEN <<"started_at">> ELSE <<>>)
    \o (IF ~Present(item.finished_at) THEN <<"finished_at">> ELSE <<>>)

\* item["missing"] = _missing_badges(item)
WithMissing(item) ==
    [f \in DOMAIN item \cup {"missing"} |->
        IF f = "missing" THEN _missing_badges(item) ELSE item[f]]

\* _pick_read_record(user_book_reads): the first item, if it is a dict
_pick_read_record(user_book_reads) ==
    IF user_book_reads.t = "list" /\ Len(user_book_reads.a) > 0
       /\ user_book_reads.a[1].t = "obj"
    THEN user_book_reads.a[1]
    ELSE EmptyDict

\* x or {}
OrEmptyDict(x) == IF Truthy(x) THEN x ELSE EmptyDict

\* x or []
OrEmptyList(x) == IF Truthy(x) THEN x ELSE JList(<<>>)

\* the body of _build_currently's loop, without the fields copied from the
\* book (author, cover, genre, slug, hardcover_book_url).  pct is computed
\* on the exact quotient; the code rounds the float (progress / pages) * 100.
CurrentlyItem(ub) ==
    LET book == OrEmptyDict(Get(OrEmptyDict(ub), "book"))
        r0 == _pick_read_record(Get(OrEmptyDict(ub), "user_book_reads"))
        pages == _safe_int(Get(book, "pages"), 0)
        progress == _safe_int(Get(OrEmptyDict(r0), "progress"), 0)
    IN WithMissing(
           [title |-> Get(book, "title"),
            pages |-> IF pages > 0 THEN JNum(pages) ELSE JNull,
            progress |-> progress,
            pct |-> IF pages > 0
                    THEN JNum(RoundHalfEven(progress * 100, pages))
                    ELSE JNull,
            rating_stars |-> _rating_to_stars(Get(OrEmptyDict(ub), "rating")),
            started_at |-> Get(OrEmptyDict(r0), "started_at"),
            finished_at |-> JNull])

\* _build_currently(me)
_build_currently(me) ==
    LET books == OrEmptyList(Get(me, "currently_reading"))
    IN [i \in 1..Len(books.a) |-> CurrentlyItem(books.a[i])]

----------------------------------------------------------------------------
(* build_static.py: the finished list                                      *)

\* the operands of the or swapped: last_read or _parse_dt(r0.finished_at)
LastReadFirst(session_finished, last_read) ==
    IF last_read.ok THEN last_read ELSE session_finished

\* finished_at = _parse_dt(r0.finished_at) or last_read
ResolveFinished(session_finished, last_read) ==
    IF session_finished.ok THEN session_finished ELSE last_read

\* the body of _build_finished's loop: keep is FALSE where it continues.
\* Of the item, author, cover, genre, slug, hardcover_book_url and
\* month_name are copied or looked up from the book and left out here.
FinishedItem(ub) ==
    LET book == OrEmptyDict(Get(OrEmptyDict(ub), "book"))
        pages == _safe_int(Get(book, "pages"), 0)
        last_read == _parse_dt(Get(OrEmptyDict(ub), "last_read_date"))
        r0 == _pick_read_record(Get(OrEmptyDict(ub), "user_book_reads"))
        started_at == _parse_dt(Get(OrEmptyDict(r0), "started_at"))
        finished_at ==
            ResolveFinished(_parse_dt(Get(OrEmptyDict(r0), "finished_at")),
                            last_read)
        item == [title |-> Get(book, "title"),
                 pages |-> IF pages > 0 THEN JNum(pages) ELSE JNull,
                 rating_stars |->
                     _rating_to_stars(Get(OrEmptyDict(ub), "rating")),
                 started_at |-> started_at,
                 finished_at |-> finished_at,
                 duration_days |-> _days_between(started_at, finished_at),
                 year |-> finished_at.y,
                 month |-> finished_at.m]
    IN [keep |-> finished_at.ok, item |-> WithMissing(item)]

\* x.get("finished_at") or "": isoformat strings order as (y, m, d) does
FinishedKeyLess(a, b) ==
    \/ a.finished_at.y < b.finished_at.y
    \/ a.finished_at.y = b.finished_at.y /\ a.finished_at.m < b.finished_at.m
    \/ /\ a.finished_at.y = b.finished_at.y
       /\ a.finished_at.m = b.finished_at.m
       /\ a.finished_at.d < b.finished_at.d

\* where list.sort(key=..., reverse=True) puts x among sorted items: behind
\* every item whose key is not less than x's (the sort is stable)
RECURSIVE InsertDesc(_, _)
InsertDesc(sorted, x) ==
    IF sorted = <<>> THEN <<x>>
    ELSE IF FinishedKeyLess(Head(sorted), x) THEN <<x>> \o sorted
    ELSE <<Head(sorted)>> \o InsertDesc(Tail(sorted), x)

\* items.sort(key=lambda x: x.get("finished_at") or "", reverse=True)
RECURSIVE SortFinishedDesc(_, _)
SortFinishedDesc(items, acc) ==
    IF items = <<>> THEN acc
    ELSE SortFinishedDesc(Tail(items), InsertDesc(acc, Head(items)))

RECURSIVE KeptItems(_, _)
KeptItems(raw, i) ==
    IF i > Len(raw) THEN <<>>
    ELSE (IF FinishedItem(raw[i]).keep THEN <<FinishedItem(raw[i]).item>>
          ELSE <<>>)
         \o KeptItems(raw, i + 1)

\* _build_finished(recently_raw)
_build_finished(recently_raw) == SortFinishedDesc(KeptItems(recently_raw, 1), <<>>)

----------------------------------------------------------------------------
(* build_static.py: the timeline and the streak                            *)

\* sorted(keys, reverse=True)
RECURSIVE SortedDesc(_)
SortedDesc(S) ==
    IF S = {} THEN <<>>
    ELSE LET mx == CHOOSE x \in S : \A y \in S : y <= x
         IN <<mx>> \o SortedDesc(S \ {mx})

\* a grouping keyed by the month alone
SameMonthAnyYear(books, year, month) ==
    SelectSeq(books, LAMBDA b : b.month = month)

\* grouped[year][month]: the books of the month, in the order of the list
Grouped(books, year, month) ==
    SelectSeq(books, LAMBDA b : b.year = year /\ b.month = month)

RECURSIVE SumCounts(_)
SumCounts(months) ==
    IF months = <<>> THEN 0 ELSE Head(months).count + SumCounts(Tail(months))

\* _group_timeline(books)
_group_timeline(books) ==
    LET years == SortedDesc({books[i].year : i \in 1..Len(books)})
        monthsOf(y) ==
            SortedDesc({books[i].month :
                           i \in {j \in 1..Len(books) : books[j].year = y}})
        monthEntry(y, m) ==
            LET items == SortFinishedDesc(Grouped(books, y, m), <<>>)
            IN [month |-> m, count |-> Len(items), books |-> items]
        yearEntry(y) ==
            LET months == [j \in 1..Len(monthsOf(y)) |->
                              monthEntry(y, monthsOf(y)[j])]
            IN [year |-> y, count |-> SumCounts(months), months |-> months]
    IN [i \in 1..Len(years) |-> yearEntry(years[i])]

\* n = y * 12 + (m - 1)
MonthIndex(ym) == ym[1] * 12 + (ym[2] - 1)

\* a test on the month numbers that does not carry over the year
NextMonthSameYear(ym1, ym2) == ym1[1] = ym2[1] /\ ym2[2] - ym1[2] = 1

\* n2 - n1 == 1
Consecutive(ym1, ym2) == MonthIndex(ym2) - MonthIndex(ym1) = 1

\* sorted({(b["year"], b["month"]) for b in books})
RECURSIVE SortedPairs(_)
SortedPairs(S) ==
    IF S = {} THEN <<>>
    ELSE LET mn == CHOOSE x \in S :
                      \A y \in S : x[1] < y[1] \/ (x[1] = y[1] /\ x[2] <= y[2])
         IN <<mn>> \o SortedPairs(S \ {mn})

Max(a, b) == IF a >= b THEN a ELSE b

\* the for loop of _monthly_streak from index i on; returns best
RECURSIVE StreakLoop(_, _, _, _)
StreakLoop(ym, i, run, best) ==
    IF i > Len(ym) THEN Max(best, run)
    ELSE LET run2 == IF Consecutive(ym[i - 1], ym[i]) THEN run + 1 ELSE 1
         IN StreakLoop(ym, i + 1, run2, Max(best, run2))

\* the while loop of _monthly_streak from (y, m) on; returns current
RECURSIVE CountBack(_, _, _)
CountBack(ym_set, y, m) ==
    IF <<y, m>> \notin ym_set THEN 0
    ELSE 1 + (IF m - 1 = 0 THEN CountBack(ym_set, y - 1, 12)
              ELSE CountBack(ym_set, y, m - 1))

\* _monthly_streak(books), with date.today() = today
_monthly_streak(books, today) ==
    LET ym == SortedPairs({<<books[i].year, books[i].month>> : i \in 1..Len(books)})
        ym_set == {ym[i] : i \in 1..Len(ym)}
    IN [monthly_current |-> CountBack(ym_set, today[1], today[2]),
        monthly_best |-> IF Len(ym) > 0 THEN StreakLoop(ym, 2, 1, 0) ELSE 0]

----------------------------------------------------------------------------
(* The run of main()                                                       *)

Tmp == DumpTarget(cfg.cache_path)

\* the cache files a run can find: none, a truncated one, an earlier run's
InitialCaches ==
    << NoFile,
       File(<<Tok("{"), StrTok("me"), Tok(":")>>, 0),
       File(JsonDump(MakePayload(GraphqlData(Bodies[1]))), 0),
       File(JsonDump(MakePayload(GraphqlData(Bodies[3]))), 0) >>

Init ==
    /\ cfg \in [token : {"", "secret"}, cache_path : CachePaths,
                ttl_seconds : 0..MaxTtl, nocache : BOOLEAN]
    /\ now = 0
    /\ \E i \in 1..Len(InitialCaches) :
          fs = [p \in Paths |->
                   IF p = cfg.cache_path /\ p # "" THEN InitialCaches[i] ELSE NoFile]
    /\ fs0 = fs
    /\ pc = "start"
    /\ response = JNull
    /\ payload = JNull
    /\ result = None
    /\ prev = None
    /\ error = "none"
    /\ requests = 0
    /\ cache_reads = 0
    /\ cache_writes = 0
    /\ artifacts = {}
    /\ runs = 1
    /\ input = <<>>
    /\ output = <<>>

\* time passes before the run
Tick ==
    /\ pc = "start"
    /\ now < MaxTime
    /\ now' = now + 1
    /\ UNCHANGED <<cfg, fs0, fs, pc, response, payload, result, prev, error, requests,
                   cache_reads, cache_writes, artifacts, runs, input, output>>

\* main: token = os.getenv(...); if not token: raise SystemExit
CheckToken ==
    /\ pc = "start"
    /\ IF cfg.token = ""
       THEN pc' = "exit" /\ error' = "SystemExit"
       ELSE pc' = "fetch" /\ error' = error
    /\ UNCHANGED <<cfg, fs0, now, fs, response, payload, result, prev, requests,
                   cache_reads, cache_writes, artifacts, runs, input, output>>

\* fetch_hardcover_data: the cache read, and the return of a cached value
ReadCache ==
    /\ pc = "fetch"
    /\ IF cfg.nocache
       THEN /\ pc' = "request"
            /\ UNCHANGED <<result, cache_reads>>
       ELSE LET cached == _read_cache(fs, cfg.cache_path, cfg.ttl_seconds, now) IN
            /\ cache_reads' = cache_reads
                 + (IF ReadOpensFile(fs, cfg.cache_path, cfg.ttl_seconds, now)
                    THEN 1 ELSE 0)
            /\ IF cached # JNull
               THEN pc' = "render" /\ result' = [src |-> "cache", val |-> cached]
               ELSE pc' = "request" /\ result' = result
    /\ UNCHANGED <<cfg, fs0, now, fs, response, payload, prev, error, requests,
                   cache_writes, artifacts, runs, input, output>>

\* a graphql() without the errors check
IgnoresErrorsField(outcome, body) == outcome = "ok"

\* graphql(): whether it returns rather than raises
GraphqlReturns(outcome, body) == outcome = "ok" /\ ~HasKey(body, "errors")

\* graphql(token, QUERY): one POST, raise_for_status, the errors check, and
\* payload = {"me": data.get("me")}
Request ==
    /\ pc = "request"
    /\ requests' = requests + 1
    /\ \E o \in Outcomes, b \in 1..Len(Bodies) :
          /\ response' = (IF o = "ok" THEN Bodies[b] ELSE JNull)
          /\ IF GraphqlReturns(o, Bodies[b])
             THEN /\ pc' = "write"
                  /\ error' = error
                  /\ payload' = MakePayload(GraphqlData(Bodies[b]))
             ELSE /\ pc' = "failed"
                  /\ error' = (CASE o = "timeout" -> "Timeout"
                                 [] o = "http_error" -> "HTTPError"
                                 [] OTHER -> "RuntimeError")
                  /\ payload' = payload
    /\ UNCHANGED <<cfg, fs0, now, fs, result, prev, cache_reads, cache_writes,
                   artifacts, runs, input, output>>

\* _write_cache up to open(tmp, "w"): the path check, makedirs, the open
OpenTmp ==
    /\ pc = "write"
    /\ IF cfg.cache_path = ""
       THEN /\ pc' = "render"
            /\ result' = [src |-> "live", val |-> payload]
            /\ UNCHANGED <<fs, error, cache_writes>>
       ELSE IF Dirname(cfg.cache_path) = ""
       THEN /\ pc' = "failed"
            /\ error' = "FileNotFoundError"
            /\ UNCHANGED <<fs, result, cache_writes>>
       ELSE /\ pc' = "dump"
            /\ fs' = [fs EXCEPT ![Tmp] = File(<<>>, now)]
            /\ cache_writes' = cache_writes + 1
            /\ UNCHANGED <<result, error>>
    /\ UNCHANGED <<cfg, fs0, now, response, payload, prev, requests, cache_reads,
                   artifacts, runs, input, output>>

\* json.dump: the next chunk reaches the file
WriteChunk ==
    /\ pc = "dump"
    /\ Len(fs[Tmp].data) < Len(JsonDump(payload))
    /\ fs' = [fs EXCEPT ![Tmp] =
                 File(Append(@.data, JsonDump(payload)[Len(@.data) + 1]), now)]
    /\ UNCHANGED <<cfg, fs0, now, pc, response, payload, result, prev, error, requests,
                   cache_reads, cache_writes, artifacts, runs, input, output>>

\* the end of the with block: the file is closed
CloseTmp ==
    /\ pc = "dump"
    /\ Len(fs[Tmp].data) = Len(JsonDump(payload))
    /\ pc' = "replace"
    /\ UNCHANGED <<cfg, fs0, now, fs, response, payload, result, prev, error, requests,
                   cache_reads, cache_writes, artifacts, runs, input, output>>

\* os.replace(tmp, path), and fetch_hardcover_data's return payload
Replace ==
    /\ pc = "replace"
    /\ fs' = IF Tmp = cfg.cache_path THEN fs
             ELSE [fs EXCEPT ![cfg.cache_path] = fs[Tmp], ![Tmp] = NoFile]
    /\ result' = [src |-> "live", val |-> payload]
    /\ pc' = "render"
    /\ UNCHANGED <<cfg, fs0, now, response, payload, prev, error, requests,
                   cache_reads, cache_writes, artifacts, runs, input, output>>

\* the process dies inside _write_cache
Crash ==
    /\ pc \in {"dump", "replace"}
    /\ pc' = "crashed"
    /\ error' = "killed"
    /\ UNCHANGED <<cfg, fs0, now, fs, response, payload, result, prev, requests,
                   cache_reads, cache_writes, artifacts, runs, input, output>>

\* main after the fetch: build the view model, render, write the page, copy
\* the static assets (static/ is taken to exist)
Render ==
    /\ pc = "render"
    /\ artifacts' = artifacts \cup {"docs/reading/index.html", "docs/static"}
    /\ pc' = "done"
    /\ UNCHANGED <<cfg, fs0, now, fs, response, payload, result, prev, error, requests,
                   cache_reads, cache_writes, runs, input, output>>

\* the next scheduled run, in the same environment
NextRun ==
    /\ pc \in {"done", "failed", "exit", "crashed"}
    /\ runs < MaxRuns
    /\ runs' = runs + 1
    /\ pc' = "start"
    /\ prev' = (IF pc = "done" THEN result ELSE None)
    /\ response' = JNull
    /\ payload' = JNull
    /\ result' = None
    /\ error' = "none"
    /\ requests' = 0
    /\ cache_reads' = 0
    /\ cache_writes' = 0
    /\ artifacts' = {}
    /\ fs0' = fs
    /\ UNCHANGED <<cfg, now, fs, input, output>>

Next ==
    \/ Tick
    \/ CheckToken
    \/ ReadCache
    \/ Request
    \/ OpenTmp
    \/ WriteChunk
    \/ CloseTmp
    \/ Replace
    \/ Crash
    \/ Render
    \/ NextRun

Spec == Init /\ [][Next]_vars

----------------------------------------------------------------------------
(* The builder's functions on bounded inputs                               *)

MaxSessions == 2
MaxRating == 12
RatingDenom == 4
MaxBooks == 2
MaxTimelineBooks == 3

fetchVars == <<cfg, now, fs, fs0, response, payload, result, prev, error,
               requests, cache_reads, cache_writes, artifacts, runs>>

\* no run of main is under way
Idle ==
    /\ cfg = [token |-> "", cache_path |-> "", ttl_seconds |-> 0, nocache |-> TRUE]
    /\ now = 0
    /\ fs = [p \in Paths |-> NoFile]
    /\ fs0 = fs
    /\ response = JNull
    /\ payload = JNull
    /\ result = None
    /\ prev = None
    /\ error = "none"
    /\ requests = 0
    /\ cache_reads = 0
    /\ cache_writes = 0
    /\ artifacts = {}
    /\ runs = 0

\* all lists of at most n items of U
ListsUpTo(U, n) == UNION {[1..len -> U] : len \in 0..n}

ReadSession(started_at, progress, finished_at) ==
    JObj(<<"started_at", "progress", "finished_at">>,
         <<started_at, progress, finished_at>>)

UserBook(rating, last_read_date, reads, pages) ==
    JObj(<<"rating", "last_read_date", "user_book_reads", "book">>,
         <<rating, last_read_date, reads,
           JObj(<<"title", "pages">>, <<JStr("Dune"), pages>>)>>)

\* --- _build_currently over one book with up to MaxSessions read sessions

CurrentlySessions ==
    {ReadSession(st, pr, JNull) :
        st \in {JNull, JDate("YYYY-MM-DD", 2023, 3, 1)},
        pr \in {JNull, JNum(0), JNum(10), JNum(50)}}

InitCurrently ==
    /\ Idle
    /\ pc = "call"
    /\ \E reads \in ListsUpTo(CurrentlySessions, MaxSessions),
          pages \in {JNull, JNum(200)} :
          input = JObj(<<"currently_reading">>,
                       <<JList(<<UserBook(JNum(4), JNull, JList(reads), pages)>>)>>)
    /\ output = <<>>

BuildCurrently ==
    /\ pc = "call"
    /\ output' = _build_currently(input)
    /\ pc' = "return"
    /\ UNCHANGED <<input, fetchVars>>

SpecCurrently == InitCurrently /\ [][BuildCurrently]_vars

\* --- _rating_to_stars over ratings up to MaxRating in steps of 1/RatingDenom

RawRatings ==
    {JNull, JStr("five"), JList(<<>>)}
    \cup {JFrac(q, RatingDenom) : q \in (-RatingDenom)..(MaxRating * RatingDenom)}

InitRating ==
    /\ Idle
    /\ pc = "call"
    /\ input \in RawRatings
    /\ output = JNull

RatingToStars ==
    /\ pc = "call"
    /\ output' = _rating_to_stars(input)
    /\ pc' = "return"
    /\ UNCHANGED <<input, fetchVars>>

SpecRating == InitRating /\ [][RatingToStars]_vars

\* --- _build_finished over up to MaxBooks finished records

NoOutput == [finished |-> <<>>, timeline |-> <<>>, today |-> <<0, 0>>,
             streak |-> [monthly_current |-> 0, monthly_best |-> 0]]

FinishedSessions ==
    {ReadSession(st, JNum(120), fin) :
        st \in {JNull, JDate("YYYY-MM-DD", 2023, 1, 20)},
        fin \in {JNull, JStr("soon"), JDate("YYYY-MM-DD", 2023, 1, 5),
                 JDate("YYYY-MM-DDThh:mm:ssZ", 2023, 2, 10)}}

FinishedReads ==
    {JNull, JList(<<>>)}
    \cup {JList(<<rs>>) : rs \in FinishedSessions}
    \cup {JList(<<rs, ReadSession(JNull, JNum(300),
                                  JDate("YYYY-MM-DD", 2023, 6, 30))>>) :
             rs \in {x \in FinishedSessions : Get(x, "started_at") = JNull}}

FinishedRecords ==
    {UserBook(JNum(8), lr, reads, JNum(412)) :
        lr \in {JNull, JDate("YYYY-MM-DD?", 2022, 12, 31),
                JDate("YYYY-MM-DD", 2023, 2, 30)},
        reads \in FinishedReads}

InitFinished ==
    /\ Idle
    /\ pc = "raw"
    /\ input \in ListsUpTo(FinishedRecords, MaxBooks)
    /\ output = NoOutput

\* finished = _build_finished(me.get("recently_read") or [])
BuildFinished ==
    /\ pc = "raw"
    /\ output' = [output EXCEPT !.finished = _build_finished(input)]
    /\ pc' = "finished"
    /\ UNCHANGED <<input, fetchVars>>

SpecFinished == InitFinished /\ [][BuildFinished]_vars

\* --- _group_timeline and _monthly_streak over up to MaxTimelineBooks books

FinishDays ==
    {<<2022, 11, 30>>, <<2022, 12, 1>>, <<2023, 1, 5>>, <<2023, 1, 20>>,
     <<2023, 2, 10>>, <<2023, 4, 2>>, <<2024, 1, 5>>}

Todays == {<<2022, 12>>, <<2023, 1>>, <<2023, 2>>, <<2023, 3>>, <<2023, 4>>,
           <<2024, 1>>}

TimelineRecords ==
    {UserBook(JNull, JNull,
              JList(<<ReadSession(JNull, JNull,
                                  JDate("YYYY-MM-DD", day[1], day[2], day[3]))>>),
              JNull) : day \in FinishDays}

InitTimeline ==
    /\ Idle
    /\ pc = "raw"
    /\ input \in ListsUpTo(TimelineRecords, MaxTimelineBooks)
    /\ output = NoOutput

\* timeline = _group_timeline(finished)
GroupTimeline ==
    /\ pc = "finished"
    /\ output' = [output EXCEPT !.timeline = _group_timeline(output.finished)]
    /\ pc' = "timeline"
    /\ UNCHANGED <<input, fetchVars>>

\* streak = _monthly_streak(finished), on any day of a month of Todays
MonthlyStreak ==
    /\ pc = "timeline"
    /\ \E today \in Todays :
          output' = [output EXCEPT !.today = today,
                                   !.streak = _monthly_streak(output.finished, today)]
    /\ pc' = "streak"
    /\ UNCHANGED <<input, fetchVars>>

NextTimeline ==
    \/ BuildFinished
    \/ GroupTimeline
    \/ MonthlyStreak

SpecTimeline == InitTimeline /\ [][NextTimeline]_vars

----------------------------------------------------------------------------
(* Claims about the fetcher and main, checked under Spec                   *)

CachePath == cfg.cache_path

\* the condition under which the cache is to be served
CacheServable ==
    /\ ~cfg.nocache
    /\ fs[CachePath].exists
    /\ JsonLoad(fs[CachePath].data).ok
    /\ now - fs[CachePath].mtime <= cfg.ttl_seconds

RunEnded == {"done", "failed", "crashed"}

C2_CacheWriteAtomic ==
    [][ \/ fs'[CachePath] = fs[CachePath]
        \/ /\ fs'[CachePath].exists
           /\ fs'[CachePath].data = JsonDump(payload) ]_vars

\* the writer crashed with the tmp file half written, the cache file is the
\* one the run found
C2_Witness ==
    /\ pc = "crashed"
    /\ fs0[CachePath].exists
    /\ fs[CachePath] = fs0[CachePath]
    /\ Len(fs[Tmp].data) > 0
    /\ Len(fs[Tmp].data) < Len(JsonDump(payload))

\* C3: after _write_cache wrote a payload, _read_cache at any time within
\* the TTL returns a value equal to it; a cache-served fetch that follows a
\* live fetch returns the data the live fetch returned.
C3_CacheRoundTrip ==
    /\ (pc \in {"render", "done"} /\ result.src = "live" /\ cache_writes = 1) =>
          \A t \in now..(now + cfg.ttl_seconds) :
             _read_cache(fs, CachePath, cfg.ttl_seconds, t) = result.val
    /\ (result.src = "cache" /\ prev.src = "live") => result.val = prev.val

\* a run served from the cache the run before it wrote, holding a record
C3_Witness ==
    /\ result.src = "cache"
    /\ prev.src = "live"
    /\ Get(result.val, "me").t = "obj"
    /\ runs = 2

\* the JSON summary file of the build
ProofFile == "docs/reading/build.json"

\* C9: a run that ended successfully has written the HTML page and the JSON
\* summary file; a run without a token wrote nothing and made no request.
C9_TwoArtifacts ==
    /\ pc = "done" => {"docs/reading/index.html", ProofFile} \subseteq artifacts
    /\ pc = "exit" => artifacts = {} /\ requests = 0

RequestErrors == {"HTTPError", "Timeout", "RuntimeError"}

\* C10: a failed request ends the call after one request, with no cache
\* write and the files as the run found them; a call reads the cache at most
\* once and writes it at most once, and only after a request that succeeded.
C10_FailureLeavesCache ==
    /\ (pc = "failed" /\ error \in RequestErrors) =>
          requests = 1 /\ cache_writes = 0 /\ fs = fs0
    /\ requests <= 1
    /\ cache_reads <= 1
    /\ cache_writes <= 1
    /\ (cache_writes = 1 \/ fs # fs0) =>
          /\ requests = 1
          /\ response.t = "obj"
          /\ ~HasKey(response, "errors")
          /\ error \notin RequestErrors

\* a response with an errors field ended the call, the cache file in place
C10_Witness ==
    /\ pc = "failed"
    /\ error = "RuntimeError"
    /\ HasKey(response, "errors")
    /\ fs[CachePath].exists
    /\ cache_reads = 1

----------------------------------------------------------------------------
(* Claims about the builder                                                *)

\* a session's progress, 0 when it reports none
ProgressOf(session) == _safe_int(Get(session, "progress"), 0)

\* the read sessions of the one book of SpecCurrently's input
InputSessions == Get(Get(input, "currently_reading").a[1], "user_book_reads").a

\* the sessions the policy allows: one of highest progress, or the last one
\* when every session reports zero or no progress
PolicySessions(sessions) ==
    IF \A i \in 1..Len(sessions) : ProgressOf(sessions[i]) <= 0
    THEN {sessions[Len(sessions)]}
    ELSE {sessions[i] : i \in {j \in 1..Len(sessions) :
                                  \A l \in 1..Len(sessions) :
                                     ProgressOf(sessions[l]) <= ProgressOf(sessions[j])}}

\* C4: for a non-empty list of read sessions the builder's item carries the
\* progress and start of the session of highest progress, or of the last
\* session when all report zero or no progress.
C4_PicksHighestProgress ==
    (pc = "return" /\ Len(InputSessions) > 0) =>
        \E sel \in PolicySessions(InputSessions) :
           /\ output[1].progress = ProgressOf(sel)
           /\ output[1].started_at = Get(sel, "started_at")

\* C5: _rating_to_stars returns null or an integer from 1 to 5.
C5_StarsInRange ==
    pc = "return" => output \in {JNull} \cup {JNum(stars) : stars \in 1..5}

\* the date a finished record is to get: its selected session's, else its
\* last_read_date, else none
ExpectedFinish(ub) ==
    LET session == _parse_dt(Get(_pick_read_record(Get(ub, "user_book_reads")),
                                 "finished_at"))
        last_read == _parse_dt(Get(ub, "last_read_date"))
    IN IF session.ok THEN session
       ELSE IF last_read.ok THEN last_read
       ELSE NoDate

\* C6: the finished list holds one item per record that has a session
\* finish date or a last_read_date, the item's finished_at being the
\* session's date where there is one and last_read_date otherwise; records
\* with neither are left out, so every item has a finished_at.
C6_FinishedAtResolution ==
    pc = "finished" =>
        LET items == output.finished
            expected == [i \in 1..Len(input) |-> ExpectedFinish(input[i])]
        IN /\ \A k \in 1..Len(items) : items[k].finished_at.ok
           /\ Len(items) = Cardinality({i \in 1..Len(input) : expected[i].ok})
           /\ \A i \in 1..Len(input) :
                 expected[i].ok =>
                    Cardinality({k \in 1..Len(items) :
                                    items[k].finished_at = expected[i]})
                    = Cardinality({j \in 1..Len(input) : expected[j] = expected[i]})

\* one record has a session finish date and a different last_read_date, one
\* has neither
C6_Witness ==
    /\ pc = "finished"
    /\ Len(input) = 2
    /\ Len(output.finished) = 1
    /\ \E i \in 1..2 :
          LET session == _parse_dt(Get(Get(input[i], "user_book_reads").a[1],
                                       "finished_at"))
              last_read == _parse_dt(Get(input[i], "last_read_date"))
          IN /\ Get(input[i], "user_book_reads").t = "list"
             /\ Len(Get(input[i], "user_book_reads").a) > 0
             /\ session.ok
             /\ last_read.ok
             /\ session # last_read
             /\ output.finished[1].finished_at = session

\* the number of times x occurs in seq
Occurrences(seq, x) == Cardinality({k \in 1..Len(seq) : seq[k] = x})

\* the (year, month) buckets of a timeline, by position
Buckets(timeline) ==
    UNION {{<<i, j>> : j \in 1..Len(timeline[i].months)} : i \in 1..Len(timeline)}

RECURSIVE SumYearCounts(_)
SumYearCounts(timeline) ==
    IF timeline = <<>> THEN 0
    ELSE Head(timeline).count + SumYearCounts(Tail(timeline))

RECURSIVE SumLens(_)
SumLens(months) ==
    IF months = <<>> THEN 0 ELSE Len(Head(months).books) + SumLens(Tail(months))

\* C7: the timeline partitions the finished list: every item is in exactly
\* one bucket, that of its year and month, as often as in the list; a
\* month's count is the number of its books, a year's count the sum of its
\* months' counts, and the counts add up to the length of the list.
C7_TimelinePartition ==
    pc \in {"timeline", "streak"} =>
        LET items == output.finished
            timeline == output.timeline
            booksOf(b) == timeline[b[1]].months[b[2]].books
        IN /\ \A k \in 1..Len(items) :
                 LET holding == {b \in Buckets(timeline) :
                                    Occurrences(booksOf(b), items[k]) > 0}
                 IN /\ Cardinality(holding) = 1
                    /\ \A b \in holding :
                          /\ timeline[b[1]].year = items[k].year
                          /\ timeline[b[1]].months[b[2]].month = items[k].month
                          /\ Occurrences(booksOf(b), items[k])
                             = Occurrences(items, items[k])
           /\ \A b \in Buckets(timeline) :
                 timeline[b[1]].months[b[2]].count = Len(booksOf(b))
           /\ \A i \in 1..Len(timeline) :
                 timeline[i].count = SumLens(timeline[i].months)
           /\ SumYearCounts(timeline) = Len(items)

\* three books in two Januaries and a February
C7_Witness ==
    /\ pc = "timeline"
    /\ Len(output.finished) = 3
    /\ Len(output.timeline) = 2
    /\ output.timeline[1].year = 2024
    /\ output.timeline[1].months[1].month = 1
    /\ Len(output.timeline[2].months) = 2
    /\ output.timeline[2].months[2].month = 1

\* the calendar month after / before ym
NextMonth(ym) == IF ym[2] = 12 THEN <<ym[1] + 1, 1>> ELSE <<ym[1], ym[2] + 1>>
PrevMonth(ym) == IF ym[2] = 1 THEN <<ym[1] - 1, 12>> ELSE <<ym[1], ym[2] - 1>>

RECURSIVE MonthsAfter(_, _), MonthsBefore(_, _)
MonthsAfter(ym, n) == IF n = 0 THEN ym ELSE NextMonth(MonthsAfter(ym, n - 1))
MonthsBefore(ym, n) == IF n = 0 THEN ym ELSE PrevMonth(MonthsBefore(ym, n - 1))

\* whether the n months from ym on are all in S
RunFrom(S, ym, n) == \A j \in 0..(n - 1) : MonthsAfter(ym, j) \in S

\* the length of the longest run of consecutive calendar months in S
LongestRun(S) ==
    IF S = {} THEN 0
    ELSE CHOOSE n \in 1..Cardinality(S) :
            /\ \E ym \in S : RunFrom(S, ym, n)
            /\ \A n2 \in (n + 1)..Cardinality(S) : ~\E ym \in S : RunFrom(S, ym, n2)

\* the number of consecutive months of S counting back from today
RunBackFrom(S, today) ==
    CHOOSE n \in 0..Cardinality(S) :
       /\ \A j \in 0..(n - 1) : MonthsBefore(today, j) \in S
       /\ MonthsBefore(today, n) \notin S

FinishedMonths ==
    {<<output.finished[k].year, output.finished[k].month>> :
        k \in 1..Len(output.finished)}

\* C8: monthly_best is the length of the longest run of consecutive calendar
\* months with a finished book, December followed by January, and 0 for an
\* empty list; monthly_current is the number of consecutive such months
\* counting back from the present month; 2023-01, 2023-02, 2023-04 give 2.
C8_MonthlyStreak ==
    pc = "streak" =>
        /\ output.streak.monthly_best = LongestRun(FinishedMonths)
        /\ output.streak.monthly_current = RunBackFrom(FinishedMonths, output.today)
        /\ FinishedMonths = {} => output.streak.monthly_best = 0
        /\ FinishedMonths = {<<2023, 1>>, <<2023, 2>>, <<2023, 4>>} =>
              output.streak.monthly_best = 2

\* a run over the turn of the year that reaches the present month
C8_Witness ==
    /\ pc = "streak"
    /\ FinishedMonths = {<<2022, 11>>, <<2022, 12>>, <<2023, 1>>}
    /\ output.today = <<2023, 1>>
    /\ output.streak.monthly_best = 3
    /\ output.streak.monthly_current = 3

====
